---- MODULE Spec2Model ----
(***************************************************************************)
(* Merkle root / inclusion proof (exercise 2), block header and proof of   *)
(* work (exercise 3) and transaction selection (exercise 1) of the         *)
(* cde2025.3-proof-of-work assignment, modelled from the solver and grader *)
(* scripts.                                                                *)
(*                                                                         *)
(* Representation.  A Python `bytes` value is a sequence of integers in    *)
(* 0..255.  A hex string is a sequence of hex digits 0..15 (lower-cased by *)
(* the readers before any use).  A Python `int` that may exceed 31 bits is *)
(* a big-endian sequence of base-256 digits without leading zeros          *)
(* (<<>> is zero).                                                         *)
(***************************************************************************)
EXTENDS Integers, Sequences, FiniteSets, TLC

VARIABLES
  txs_be,       \* the transaction list file: txids as hex strings, block order
  required_be,  \* REQUIRED_TXID
  solver,       \* solve_exercise02.py: the locals of build_inclusion_proof / main
  submission,   \* solutions/exercise02.txt as the grader reads it
  grader,       \* grader_exercise02.py: the locals of main
  mine_args,    \* solve_exercise03.py: the arguments of mine()
  miner,        \* solve_exercise03.py: the locals of mine() and its output file
  codec,        \* exercise 3 header / compact-target functions: input and results
  select,       \* grader_exercise01.py: mempool, submission and outcome
  modeb         \* the committed-digest verifier (Mode B): reference and outcome

vars ==
  <<txs_be, required_be, solver, submission, grader, mine_args, miner, codec, select,
    modeb>>

ex2_vars == <<required_be, solver, submission, grader>>

ex3_vars == <<mine_args, miner, codec>>

ex1_vars == <<select>>

(***************************************************************************)
(* Bounds of the model.                                                    *)
(***************************************************************************)
MaxLeaves == 5

(***************************************************************************)
(* Program constants.                                                      *)
(***************************************************************************)
TxidBytes == 32

(***************************************************************************)
(* bytes / hex conversions: bytes.fromhex(s) and b.hex().                  *)
(***************************************************************************)
fromhex(h) == [i \in 1..(Len(h) \div 2) |-> 16 * h[2 * i - 1] + h[2 * i]]

hex(b) ==
  [i \in 1..(2 * Len(b)) |->
     IF i % 2 = 1 THEN b[(i + 1) \div 2] \div 16 ELSE b[i \div 2] % 16]

IsHexDigit(c) == c \in 0..15

\* validate_hex(h, bytelen, kind): TRUE when the string passes, FALSE when the
\* code calls fail().
validate_hex(h, bytelen) ==
  /\ Len(h) = 2 * bytelen
  /\ \A i \in 1..Len(h) : IsHexDigit(h[i])

(***************************************************************************)
(* hashlib.sha256(b).digest(): a deterministic stand-in that maps any byte *)
(* string to 32 bytes.  Only its being a function of its input is used.    *)
(***************************************************************************)
RECURSIVE Absorb(_, _, _)
Absorb(b, lo, hi) ==
  IF lo > hi THEN 7
  ELSE IF lo = hi THEN ((b[lo] + 1) * (lo * lo + 3 * lo + 7)) % 65521
  ELSE LET mid == (lo + hi) \div 2
       IN  (Absorb(b, lo, mid) + 31 * Absorb(b, mid + 1, hi)) % 65521

sha256(b) ==
  LET a == Absorb(b, 1, Len(b))
  IN  [i \in 1..32 |-> ((a + i - 1) * (2 * i + 1) + (a \div 256) * (i - 1)) % 256]

(***************************************************************************)
(* One level up: the pairing loop shared by merkle_root_be_hex,            *)
(* build_parent_level (solver) and build_next_level (grader).              *)
(*   if len(nodes) % 2 == 1: nodes.append(nodes[-1])                       *)
(*   for i in range(0, len(nodes), 2): nxt.append(sha256(nodes[i]+nodes[i+1])) *)
(* Indices are 1-based here: Python's i is i - 1.                          *)
(***************************************************************************)
DuplicateFirst(level) ==
  IF Len(level) % 2 = 1 THEN Append(level, level[1]) ELSE level

DuplicateLast(level) ==
  IF Len(level) % 2 = 1 THEN Append(level, level[Len(level)]) ELSE level

RECURSIVE PairLoop(_, _, _)
PairLoop(nodes, i, nxt) ==
  IF i > Len(nodes) THEN nxt
  ELSE PairLoop(nodes, i + 2, Append(nxt, sha256(nodes[i] \o nodes[i + 1])))

build_parent_level(level) == PairLoop(DuplicateLast(level), 1, <<>>)

build_next_level(level) == PairLoop(DuplicateLast(level), 1, <<>>)

(***************************************************************************)
(* merkle_root_be_hex.  The result is a record: ok = FALSE when the code   *)
(* calls fail() / raises SystemExit, root is the returned hex string and   *)
(* hashes counts the sha256 calls made.                                    *)
(***************************************************************************)
RECURSIVE MerkleLoop(_, _)
MerkleLoop(level, n) ==
  IF Len(level) > 1
    THEN LET padded == DuplicateLast(level)
         IN  MerkleLoop(PairLoop(padded, 1, <<>>), n + Len(padded) \div 2)
    ELSE [ok |-> TRUE, root |-> hex(level[1]), hashes |-> n]

EmptyListFailure == [ok |-> FALSE, root |-> <<>>, hashes |-> 0]

\* src/dev/solve_exercise02.py
merkle_root_be_hex_solver02(txids_be_hex) ==
  LET level == [i \in 1..Len(txids_be_hex) |-> fromhex(txids_be_hex[i])]
  IN  IF level = <<>> THEN EmptyListFailure ELSE MerkleLoop(level, 0)

\* src/graders/grader_exercise02.py
merkle_root_be_hex_grader02(txids_be_hex) ==
  IF txids_be_hex = <<>> THEN EmptyListFailure
  ELSE MerkleLoop([i \in 1..Len(txids_be_hex) |-> fromhex(txids_be_hex[i])], 0)

\* src/dev/solve_exercise03.py
merkle_root_be_hex_solver03(txids_be_hex) ==
  LET level == [i \in 1..Len(txids_be_hex) |-> fromhex(txids_be_hex[i])]
  IN  IF level = <<>> THEN EmptyListFailure ELSE MerkleLoop(level, 0)

\* src/graders/grader_exercise03.py
merkle_root_be_hex_grader03(txids_be_hex) ==
  LET level == [i \in 1..Len(txids_be_hex) |-> fromhex(txids_be_hex[i])]
  IN  IF level = <<>> THEN EmptyListFailure ELSE MerkleLoop(level, 0)

(***************************************************************************)
(* Inputs: the transaction list file and the required txid.               *)
(***************************************************************************)
TxId(k) == hex([i \in 1..TxidBytes |-> (k * 37 + i * 11) % 256])

TxUniverse == {TxId(1), TxId(2)}

RECURSIVE SeqsUpTo(_, _)
SeqsUpTo(S, n) ==
  IF n = 0 THEN {<<>>}
  ELSE LET shorter == SeqsUpTo(S, n - 1)
       IN  shorter \cup {Append(s, x) : s \in {t \in shorter : Len(t) = n - 1}, x \in S}

\* list.index(x): 0-based position of the first occurrence, -1 for ValueError.
index(list, x) ==
  IF \E i \in 1..Len(list) : list[i] = x
    THEN (CHOOSE i \in 1..Len(list) : list[i] = x /\ \A j \in 1..(i - 1) : list[j] # x) - 1
    ELSE -1

\* i ^ 1 on a non-negative int.
Xor1(i) == IF i % 2 = 0 THEN i + 1 ELSE i - 1

\* One flipped bit (the lowest bit of the last byte) of a hex string.
Flip(h) == [h EXCEPT ![Len(h)] = Xor1(@)]

NoBytes == <<>>

(***************************************************************************)
(* The solver, src/dev/solve_exercise02.py.                                *)
(***************************************************************************)
SolverInit ==
  [pc |-> "start", level |-> <<>>, current |-> NoBytes, current_index |-> 0,
   proof_be |-> <<>>, root_be |-> <<>>, err |-> "", out |-> <<>>]

\* main() up to the loop of build_inclusion_proof: read_tx_list, txs_be.index.
SolverStart ==
  /\ solver.pc = "start"
  /\ LET idx == index(txs_be, required_be)
     IN  IF \E i \in 1..Len(txs_be) : ~validate_hex(txs_be[i], TxidBytes)
           THEN solver' = [solver EXCEPT !.pc = "failed", !.err = "InvalidHex"]
         ELSE IF txs_be = <<>>
           THEN solver' = [solver EXCEPT !.pc = "failed", !.err = "EmptyTxList"]
         ELSE IF idx = -1
           THEN solver' = [solver EXCEPT !.pc = "failed", !.err = "RequiredNotFound"]
         ELSE LET level == [i \in 1..Len(txs_be) |-> fromhex(txs_be[i])]
              IN  solver' = [solver EXCEPT !.pc = "ascend", !.level = level,
                                           !.current = level[idx + 1],
                                           !.current_index = idx]
  /\ UNCHANGED <<txs_be, required_be, submission, grader, ex3_vars, ex1_vars, modeb>>

\* The sibling of the node at current_index (0-based) in level.
solver_sibling_plus1(level, current_index) ==
  LET size == Len(level)
  IN  IF size % 2 = 1 /\ current_index = size - 1
        THEN level[current_index + 1]
        ELSE LET sib_index == IF current_index + 1 >= size THEN size - 1
                              ELSE current_index + 1
             IN  level[sib_index + 1]

solver_sibling(level, current_index) ==
  LET size == Len(level)
  IN  IF size % 2 = 1 /\ current_index = size - 1
        THEN level[current_index + 1]
        ELSE LET sib_index == IF Xor1(current_index) >= size THEN size - 1
                              ELSE Xor1(current_index)
             IN  level[sib_index + 1]

\* The parent of current and sib by the left/right rule.
solver_parent_always_left(size, current_index, current, sib) ==
  sha256(current \o sib)

solver_parent(size, current_index, current, sib) ==
  IF size % 2 = 1 /\ current_index = size - 1 THEN sha256(current \o sib)
  ELSE IF current_index % 2 = 0 THEN sha256(current \o sib)
  ELSE sha256(sib \o current)

\* One iteration of `while len(level) > 1` in build_inclusion_proof.
SolverAscend ==
  /\ solver.pc = "ascend"
  /\ Len(solver.level) > 1
  /\ LET level == solver.level
         size == Len(level)
         sib == solver_sibling(level, solver.current_index)
         parent == solver_parent(size, solver.current_index, solver.current, sib)
         parent_level == build_parent_level(level)
         next_index == solver.current_index \div 2
     IN  IF parent # parent_level[next_index + 1]
           THEN solver' = [solver EXCEPT !.pc = "failed", !.err = "InternalMismatch",
                                         !.proof_be = Append(@, hex(sib)),
                                         !.current_index = next_index]
           ELSE solver' = [solver EXCEPT !.proof_be = Append(@, hex(sib)),
                                         !.current_index = next_index,
                                         !.level = parent_level,
                                         !.current = parent]
  /\ UNCHANGED <<txs_be, required_be, submission, grader, ex3_vars, ex1_vars, modeb>>

\* The return of build_inclusion_proof and the rest of main(): the cross-check
\* by full recompute and the write of solutions/exercise02.txt.
SolverWrite ==
  /\ solver.pc = "ascend"
  /\ Len(solver.level) <= 1
  /\ LET root_be == hex(solver.current)
         recomputed == merkle_root_be_hex_solver02(txs_be)
     IN  IF ~recomputed.ok
           THEN solver' = [solver EXCEPT !.pc = "failed", !.err = "EmptyTxList",
                                         !.root_be = root_be]
         ELSE IF recomputed.root # root_be
           THEN solver' = [solver EXCEPT !.pc = "failed", !.err = "RootMismatch",
                                         !.root_be = root_be]
         ELSE solver' = [solver EXCEPT !.pc = "done", !.root_be = root_be,
                                       !.out = <<root_be>> \o solver.proof_be]
  /\ UNCHANGED <<txs_be, required_be, submission, grader, ex3_vars, ex1_vars, modeb>>

(***************************************************************************)
(* The submitted solutions/exercise02.txt: its non-blank lines, line 1 the *)
(* claimed root, the rest the claimed siblings.  Either the file the       *)
(* solver wrote, or any file whose k-th sibling is the true one or the     *)
(* true one with a bit flipped, cut short or extended by up to MaxExtra    *)
(* entries, under the true root or a root with a bit flipped.              *)
(***************************************************************************)
MaxExtra == 1

TrueProof == IF solver.pc = "done" THEN solver.proof_be ELSE <<>>

ClaimedProofs ==
  LET H == Len(TrueProof)
      choice(k) == IF k <= H THEN {TrueProof[k], Flip(TrueProof[k])}
                   ELSE {required_be, Flip(required_be)}
  IN  UNION {{p \in [1..n -> TxUniverse \cup UNION {choice(k) : k \in 1..n}] :
                \A k \in 1..n : p[k] \in choice(k)} : n \in 0..(H + MaxExtra)}

ClaimedRoots ==
  IF solver.pc = "done" THEN {solver.root_be, Flip(solver.root_be)}
  ELSE {required_be}

\* A line that is not 64 hex digits.
ShortLine == <<0, 1, 2>>

SubmissionFiles ==
  {<<r>> \o p : r \in ClaimedRoots, p \in ClaimedProofs}
    \cup {<<>>, <<ShortLine>>}
    \cup {<<r, ShortLine>> : r \in ClaimedRoots}

Submit ==
  /\ solver.pc \in {"done", "failed"}
  /\ submission.pc = "none"
  /\ \E lines \in SubmissionFiles :
       submission' = [pc |-> "written", lines |-> lines]
  /\ UNCHANGED <<txs_be, required_be, solver, grader, ex3_vars, ex1_vars, modeb>>

(***************************************************************************)
(* The grader, src/graders/grader_exercise02.py (Mode A).                  *)
(***************************************************************************)
NoResult == [kind |-> "none", level |-> -1, expected |-> <<>>, submitted |-> <<>>]

Result(kind) == [NoResult EXCEPT !.kind = kind]

GraderInit ==
  [pc |-> "start", student_root_be |-> <<>>, proof_be |-> <<>>, level |-> <<>>,
   current |-> NoBytes, current_index |-> 0, step |-> 0, depth_checked |-> 0,
   computed_root_be |-> <<>>, result |-> NoResult]

GraderFail(result) == [grader EXCEPT !.pc = "exit", !.result = result]

\* main() up to the loop: read_tx_list, txs_be.index,
\* read_student_root_and_proof, the leaf level.
GraderStart ==
  /\ submission.pc = "written"
  /\ grader.pc = "start"
  /\ LET idx == index(txs_be, required_be)
         lines == submission.lines
     IN  IF \E i \in 1..Len(txs_be) : ~validate_hex(txs_be[i], TxidBytes)
           THEN grader' = GraderFail(Result("InvalidHex"))
         ELSE IF txs_be = <<>>
           THEN grader' = GraderFail(Result("EmptyTxList"))
         ELSE IF idx = -1
           THEN grader' = GraderFail(Result("RequiredNotFound"))
         ELSE IF lines = <<>>
           THEN grader' = GraderFail(Result("EmptySubmission"))
         ELSE IF \E i \in 1..Len(lines) : ~validate_hex(lines[i], TxidBytes)
           THEN grader' = GraderFail(Result("InvalidHex"))
         ELSE LET level == [i \in 1..Len(txs_be) |-> fromhex(txs_be[i])]
              IN  grader' = [grader EXCEPT !.pc = "loop",
                                           !.student_root_be = lines[1],
                                           !.proof_be = Tail(lines),
                                           !.level = level,
                                           !.current = level[idx + 1],
                                           !.current_index = idx]
  /\ UNCHANGED <<txs_be, required_be, solver, submission, ex3_vars, ex1_vars, modeb>>

\* The true sibling of the node at current_index (0-based) in level.
grader_sibling(level, current_index) ==
  LET size == Len(level)
      last_dup == size % 2 = 1 /\ current_index = size - 1
  IN  IF last_dup THEN level[current_index + 1]
      ELSE LET sib_index == IF Xor1(current_index) >= size THEN size - 1
                            ELSE Xor1(current_index)
           IN  level[sib_index + 1]

grader_parent(size, current_index, current, sib) ==
  LET last_dup == size % 2 = 1 /\ current_index = size - 1
  IN  IF last_dup THEN sha256(current \o sib)
      ELSE IF current_index % 2 = 0 THEN sha256(current \o sib)
      ELSE sha256(sib \o current)

\* `if submitted_sib_le != sib`: the submitted sibling is not the true one.
proof_mismatch_bytes1(submitted_sib_le, sib) == submitted_sib_le[1] # sib[1]

proof_mismatch(submitted_sib_le, sib) == submitted_sib_le # sib

\* `if len(level) != 1` after the loop: the proof ended below the root.
proof_too_short_empty(level) == Len(level) = 0

proof_too_short(level) == Len(level) # 1

\* `if student_root_be != computed_root_be`: the claimed root is not the
\* replayed one.
claimed_root_mismatch_self(student_root_be, computed_root_be) ==
  student_root_be # student_root_be

claimed_root_mismatch(student_root_be, computed_root_be) ==
  student_root_be # computed_root_be

\* One iteration of `for step, proof_hash_be in enumerate(proof_be)`.
GraderStep ==
  /\ grader.pc = "loop"
  /\ grader.step < Len(grader.proof_be)
  /\ LET step == grader.step
         proof_hash_be == grader.proof_be[step + 1]
         level == grader.level
         size == Len(level)
         sib == grader_sibling(level, grader.current_index)
         submitted_sib_le == fromhex(proof_hash_be)
         parent == grader_parent(size, grader.current_index, grader.current, sib)
         parent_level == build_next_level(level)
         next_index == grader.current_index \div 2
         moved == [grader EXCEPT !.level = parent_level, !.current = parent,
                                 !.current_index = next_index,
                                 !.depth_checked = @ + 1]
     IN  IF proof_mismatch(submitted_sib_le, sib)
           THEN grader' = GraderFail([kind |-> "ProofMismatch", level |-> step,
                                      expected |-> hex(sib),
                                      submitted |-> proof_hash_be])
         ELSE IF parent # parent_level[next_index + 1]
           THEN grader' = [GraderFail(Result("InternalConsistency"))
                             EXCEPT !.current_index = next_index]
         ELSE IF Len(parent_level) = 1
           THEN IF step # Len(grader.proof_be) - 1
                  THEN grader' = [moved EXCEPT !.pc = "exit",
                                               !.result = Result("ProofTooLong")]
                  ELSE grader' = [moved EXCEPT !.pc = "after"]
         ELSE grader' = [moved EXCEPT !.step = step + 1]
  /\ UNCHANGED <<txs_be, required_be, solver, submission, ex3_vars, ex1_vars, modeb>>

\* The loop ran out of proof hashes without a break.
GraderLoopEnd ==
  /\ grader.pc = "loop"
  /\ grader.step >= Len(grader.proof_be)
  /\ grader' = [grader EXCEPT !.pc = "after"]
  /\ UNCHANGED <<txs_be, required_be, solver, submission, ex3_vars, ex1_vars, modeb>>

\* The checks after the loop, up to ok().
GraderFinish ==
  /\ grader.pc = "after"
  /\ LET computed_root_be == hex(grader.current)
         recomputed == merkle_root_be_hex_grader02(txs_be)
     IN  IF proof_too_short(grader.level)
           THEN grader' = GraderFail(Result("ProofTooShort"))
         ELSE IF ~recomputed.ok
           THEN grader' = GraderFail(Result("EmptyTxList"))
         ELSE IF recomputed.root # computed_root_be
           THEN grader' = [GraderFail(Result("ComputedRootMismatch"))
                             EXCEPT !.computed_root_be = computed_root_be]
         ELSE IF claimed_root_mismatch(grader.student_root_be, computed_root_be)
           THEN grader' = [GraderFail([kind |-> "RootMismatch", level |-> -1,
                                       expected |-> computed_root_be,
                                       submitted |-> grader.student_root_be])
                             EXCEPT !.computed_root_be = computed_root_be]
         ELSE grader' = [grader EXCEPT !.pc = "exit", !.result = Result("OK"),
                                       !.computed_root_be = computed_root_be]
  /\ UNCHANGED <<txs_be, required_be, solver, submission, ex3_vars, ex1_vars, modeb>>

(***************************************************************************)
(* The specification of exercise 2: a solver run, a submission, a grader   *)
(* run, over every transaction list of up to MaxLeaves txids.              *)
(***************************************************************************)
\* The other programs, not run in this specification.
NoMineArgs ==
  [version |-> 0, prevhash_be |-> <<>>, nbits_be_hex |-> <<>>, timestamp |-> <<>>,
   start_nonce |-> <<>>, max_tries |-> 0, allow_time_increment |-> FALSE]

MinerInit ==
  [pc |-> "start", merkleroot_be |-> <<>>, target |-> <<>>, nonce |-> <<>>,
   tries |-> 0, cur_time |-> <<>>, digests |-> 0, err |-> "", out |-> <<>>,
   tried |-> <<>>]

NoFields ==
  [version |-> 0, prevhash_be |-> <<>>, merkleroot_be |-> <<>>, timestamp |-> <<>>,
   nonce |-> <<>>]

NoSlices ==
  [ver_le |-> <<>>, prev_le |-> <<>>, mrkl_le |-> <<>>, time_le |-> <<>>,
   nonce_le |-> <<>>]

NoDecode == [ok |-> FALSE, err |-> "none", target |-> <<>>]

NoCodec ==
  [task |-> "none", pc |-> "idle", fields |-> NoFields, header_hex |-> <<>>,
   hdr |-> <<>>, slices |-> NoSlices, err |-> "", nbits |-> <<>>,
   solver_target |-> NoDecode, grader_target |-> NoDecode]

NoVerdict == [kind |-> "none", tx |-> "", parent |-> "", total_weight |-> 0, count |-> 0]

NoSelect ==
  [pc |-> "idle", mempool |-> <<>>, lines |-> <<>>, required_txid |-> "",
   submission |-> <<>>, result |-> NoVerdict]

NoModeB ==
  [pc |-> "idle", reference |-> <<>>, step |-> 0, root_ok |-> FALSE,
   length_ok |-> FALSE, reported |-> <<>>, result |-> "none"]

Ex2Idle ==
  /\ required_be = <<>>
  /\ solver = SolverInit
  /\ submission = [pc |-> "none", lines |-> <<>>]
  /\ grader = GraderInit
  /\ modeb = NoModeB

Init ==
  /\ txs_be \in SeqsUpTo(TxUniverse, MaxLeaves)
  /\ required_be \in TxUniverse
  /\ solver = SolverInit
  /\ submission = [pc |-> "none", lines |-> <<>>]
  /\ grader = GraderInit
  /\ modeb = NoModeB
  /\ mine_args = NoMineArgs
  /\ miner = MinerInit
  /\ codec = NoCodec
  /\ select = NoSelect

Next ==
  \/ SolverStart
  \/ SolverAscend
  \/ SolverWrite
  \/ Submit
  \/ GraderStart
  \/ GraderStep
  \/ GraderLoopEnd
  \/ GraderFinish

Spec == Init /\ [][Next]_vars

(***************************************************************************)
(* Properties of exercise 2.                                               *)
(***************************************************************************)
GraderDone == grader.pc = "exit"

\* The grader parsed the submission: every line is 64 hex digits.
Parsed ==
  /\ submission.lines # <<>>
  /\ \A i \in 1..Len(submission.lines) : validate_hex(submission.lines[i], TxidBytes)

ClaimedProof == Tail(submission.lines)

\* The tree of spec section 3: level[k+1][i] = hash(pad(level[k])[2i] ||
\* pad(level[k])[2i+1]), written without the code's loops.
RefNextLevel(level) ==
  LET n == Len(level)
      pad(j) == IF j > n THEN level[n] ELSE level[j]
  IN  [i \in 1..((n + 1) \div 2) |-> sha256(pad(2 * i - 1) \o pad(2 * i))]

RECURSIVE RefRoot(_)
RefRoot(level) == IF Len(level) = 1 THEN level[1] ELSE RefRoot(RefNextLevel(level))

Leaves == [i \in 1..Len(txs_be) |-> fromhex(txs_be[i])]

\* C1: for every non-empty leaf list and every listed target, the generator
\* produces a (root, siblings) file, and the grader run on that file with the
\* same list and target accepts it, with the replayed root equal to the
\* full-rebuild root merkle_root_be_hex(leaves).
C1_GeneratedProofAccepted ==
  /\ (solver.pc = "failed") => (txs_be = <<>> \/ index(txs_be, required_be) = -1)
  /\ (solver.pc = "done" /\ GraderDone /\ submission.lines = solver.out) =>
       /\ grader.result.kind = "OK"
       /\ grader.computed_root_be = merkle_root_be_hex_solver02(txs_be).root
       /\ grader.computed_root_be = solver.root_be
       /\ grader.depth_checked = Len(solver.proof_be)

C1_Witness ==
  /\ GraderDone /\ grader.result.kind = "OK"
  /\ submission.lines = solver.out
  /\ Len(txs_be) = 3 /\ index(txs_be, required_be) = 2

\* The four copies of merkle_root_be_hex on the list of this run.
C2_Functions ==
  LET s2 == merkle_root_be_hex_solver02(txs_be)
      g2 == merkle_root_be_hex_grader02(txs_be)
      s3 == merkle_root_be_hex_solver03(txs_be)
      g3 == merkle_root_be_hex_grader03(txs_be)
      a == Leaves[1]
      b == Leaves[2]
      c == Leaves[3]
  IN  /\ s2 = g2 /\ s3 = g2 /\ g3 = g2
      /\ (txs_be = <<>>) => (~g2.ok /\ g2.hashes = 0)
      /\ (txs_be # <<>>) => (g2.ok /\ g2.root = hex(RefRoot(Leaves)))
      /\ (Len(txs_be) = 1) => (g2.root = txs_be[1] /\ g2.hashes = 0)
      /\ (Len(txs_be) = 2) => (g2.root = hex(sha256(a \o b)))
      /\ (Len(txs_be) = 3) =>
           (g2.root = hex(sha256(sha256(a \o b) \o sha256(c \o c))))

\* C2: merkle_root_be_hex returns the node left by repeated pairing with the
\* last node of an odd level duplicated: a single leaf is its own root with no
\* hash computed, [a,b] gives hash(a||b), [a,b,c] gives
\* hash(hash(a||b) || hash(c||c)); the four copies agree; an empty list is
\* rejected with no hash computed.  The list never changes in a run, so the
\* functions are compared once per list, where the solver reads it; the roots
\* the runs produce are compared where they are produced.
C2_MerkleRoot ==
  /\ (solver.pc = "start") => C2_Functions
  /\ (solver.pc = "done" /\ submission.pc = "none") =>
       (solver.root_be = hex(RefRoot(Leaves)))
  /\ (GraderDone /\ grader.result.kind = "OK") =>
       (grader.computed_root_be = hex(RefRoot(Leaves)))

C2_Witness ==
  /\ Len(txs_be) = 3 /\ txs_be[3] # txs_be[1]
  /\ solver.pc = "done"
  /\ solver.root_be = merkle_root_be_hex_grader02(txs_be).root

\* The k-th claimed sibling is the first wrong one.
C3_FirstWrong(k) ==
  /\ k <= Len(ClaimedProof)
  /\ ClaimedProof[k] # solver.proof_be[k]
  /\ \A j \in 1..(k - 1) : ClaimedProof[j] = solver.proof_be[j]

\* C3: when the submitted sibling at level k differs from the true sibling and
\* the ones below it are correct, the grader fails with the proof mismatch of
\* level k, naming the true sibling and the submitted one, whatever the
\* claimed root and the later siblings are.
C3_FlippedSiblingRejected ==
  (solver.pc = "done" /\ GraderDone /\ Parsed) =>
    \A k \in 1..Len(solver.proof_be) :
      C3_FirstWrong(k) =>
        grader.result = [kind |-> "ProofMismatch", level |-> k - 1,
                         expected |-> solver.proof_be[k],
                         submitted |-> ClaimedProof[k]]

C3_Witness ==
  /\ solver.pc = "done" /\ GraderDone /\ Parsed
  /\ Len(solver.proof_be) = 3
  /\ C3_FirstWrong(3)
  /\ ClaimedProof[3] = Flip(solver.proof_be[3])
  /\ submission.lines[1] = solver.root_be
  /\ grader.result.kind = "ProofMismatch" /\ grader.result.level = 2

\* The claimed siblings are the true ones followed by more.
C4_EntriesLeftAtRoot ==
  /\ Len(ClaimedProof) > Len(solver.proof_be)
  /\ \A k \in 1..Len(solver.proof_be) : ClaimedProof[k] = solver.proof_be[k]

\* C4: whenever siblings are left over once the replay has reached the
\* single-node root level (a single-leaf list reaches it with no sibling at
\* all), the grader fails with the proof-too-long error.
C4_ExtraSiblingsTooLong ==
  (solver.pc = "done" /\ GraderDone /\ Parsed /\ C4_EntriesLeftAtRoot) =>
    grader.result.kind = "ProofTooLong"

\* C4 on lists of two or more leaves, where the code does what is claimed.
C4_ExtraSiblingsTooLong_MultiLeaf ==
  (solver.pc = "done" /\ GraderDone /\ Parsed /\ C4_EntriesLeftAtRoot
     /\ Len(txs_be) > 1) =>
    grader.result.kind = "ProofTooLong"

\* The claimed siblings are a proper prefix of the true ones.
C5_ProperPrefix ==
  /\ Len(ClaimedProof) < Len(solver.proof_be)
  /\ \A k \in 1..Len(ClaimedProof) : ClaimedProof[k] = solver.proof_be[k]

\* C5: on a list of two or more leaves, a submitted sibling list that is a
\* proper prefix of the true one (the empty list included) fails with the
\* proof-too-short error.
C5_PrefixTooShort ==
  (solver.pc = "done" /\ GraderDone /\ Parsed /\ Len(txs_be) > 1
     /\ C5_ProperPrefix) =>
    grader.result.kind = "ProofTooShort"

C5_Witness ==
  /\ solver.pc = "done" /\ GraderDone /\ Parsed
  /\ C5_ProperPrefix
  /\ Len(ClaimedProof) = 2 /\ grader.depth_checked = 2
  /\ grader.result.kind = "ProofTooShort"

\* The siblings of the leaf at index i (0-based) in the tree of spec section
\* 3, leaf to root, written without the code's loops.
RECURSIVE RefSiblings(_, _)
RefSiblings(level, i) ==
  IF Len(level) = 1 THEN <<>>
  ELSE LET n == Len(level)
           pad(j) == IF j > n THEN level[n] ELSE level[j]
       IN  <<pad(Xor1(i) + 1)>> \o RefSiblings(RefNextLevel(level), i \div 2)

\* The number of levels between n leaves and the root.
RECURSIVE Height(_)
Height(n) == IF n <= 1 THEN 0 ELSE 1 + Height((n + 1) \div 2)

\* The claimed root and siblings are the true ones.
C12_TrueSubmission ==
  LET siblings == RefSiblings(Leaves, index(txs_be, required_be))
  IN  /\ submission.lines[1] = hex(RefRoot(Leaves))
      /\ submission.lines[1] = merkle_root_be_hex_grader02(txs_be).root
      /\ Len(ClaimedProof) = Height(Len(txs_be))
      /\ Len(ClaimedProof) = Len(siblings)
      /\ \A k \in 1..Len(siblings) : ClaimedProof[k] = hex(siblings[k])

\* C12: on a non-empty list that holds the target, the Mode A grader accepts a
\* well-formed (claimed root, claimed siblings) file exactly when the claimed
\* root is merkle_root_be_hex(leaves) and the claimed siblings are the true
\* siblings of the target leaf, in order, one per level; every other file is
\* rejected with a sibling mismatch, a length failure or a root mismatch.
C12_AcceptsOnlyTrueProof ==
  (GraderDone /\ Parsed /\ txs_be # <<>> /\ index(txs_be, required_be) # -1) =>
    /\ (grader.result.kind = "OK") <=> C12_TrueSubmission
    /\ (grader.result.kind # "OK") =>
         grader.result.kind \in {"ProofMismatch", "ProofTooShort", "ProofTooLong",
                                 "RootMismatch", "ComputedRootMismatch"}

C12_Witness ==
  /\ GraderDone /\ Parsed
  /\ Len(txs_be) = 5 /\ index(txs_be, required_be) = 1
  /\ ClaimedProof = solver.proof_be
  /\ submission.lines[1] = Flip(solver.root_be)
  /\ grader.result.kind = "RootMismatch"
  /\ grader.depth_checked = 3

\* The tracked node of an ascent is the node of the level at the tracked
\* index, and its parent by the per-node rule is the node at half that index
\* in the next level of the reference tree.
C15_Tracked(level, current, current_index) ==
  /\ 0 <= current_index /\ current_index < Len(level)
  /\ current = level[current_index + 1]
  /\ (Len(level) > 1) =>
       LET n == Len(level)
           i == current_index
           sibling == IF n % 2 = 1 /\ i = n - 1 THEN level[i + 1] ELSE level[Xor1(i) + 1]
           parent == IF i % 2 = 0 THEN sha256(current \o sibling)
                     ELSE sha256(sibling \o current)
       IN  parent = RefNextLevel(level)[(i \div 2) + 1]

\* C15: on a non-empty list that holds the target, at every level of the
\* generator's ascent and of the grader's replay the tracked index is within
\* the level and the tracked node is the node at that index, so the parent by
\* the per-node rule is the entry at half the index of the rebuilt next
\* level: neither program reaches its internal-consistency failure, and the
\* root the generator returns is the full-rebuild root whichever leaf is
\* traced (for [a,b], hash(a||b) from either leaf).
C15_AscentTracksLevel ==
  /\ (solver.pc = "ascend") =>
       /\ C15_Tracked(solver.level, solver.current, solver.current_index)
       /\ (Len(solver.level) > 1) =>
            solver_parent(Len(solver.level), solver.current_index, solver.current,
                          solver_sibling(solver.level, solver.current_index))
              = build_parent_level(solver.level)[(solver.current_index \div 2) + 1]
  /\ (grader.pc \in {"loop", "after"}) =>
       C15_Tracked(grader.level, grader.current, grader.current_index)
  /\ solver.err \notin {"InternalMismatch", "RootMismatch"}
  /\ grader.result.kind \notin {"InternalConsistency"}
  /\ (solver.pc = "done" /\ submission.pc = "none") =>
       /\ solver.root_be = hex(RefRoot(Leaves))
       /\ solver.root_be = merkle_root_be_hex_solver02(txs_be).root
       /\ (Len(txs_be) = 2) =>
            /\ solver.root_be = hex(sha256(Leaves[1] \o Leaves[2]))
            /\ solver.proof_be = <<txs_be[Xor1(index(txs_be, required_be)) + 1]>>

C15_Witness ==
  /\ grader.pc = "loop" /\ grader.step = 1
  /\ submission.lines = solver.out
  /\ Len(txs_be) = 5
  /\ Len(grader.level) = 3 /\ grader.current_index = 2
  /\ grader.current = grader.level[3]
  /\ Len(solver.proof_be) = 3

C15_WitnessTwoLeaves ==
  /\ solver.pc = "done"
  /\ Len(txs_be) = 2 /\ index(txs_be, required_be) = 1
  /\ solver.proof_be = <<txs_be[1]>>

(***************************************************************************)
(* Python ints beyond 31 bits: big-endian base-256 digits, no leading      *)
(* zeros.                                                                  *)
(***************************************************************************)
\* int.from_bytes(b, "big")
from_bytes(b) ==
  LET nz == {i \in 1..Len(b) : b[i] # 0}
  IN  IF nz = {} THEN <<>>
      ELSE SubSeq(b, CHOOSE i \in nz : \A j \in nz : i <= j, Len(b))

Zeros(n) == [i \in 1..n |-> 0]

\* n.to_bytes(w, "big"), for n < 256^w
to_bytes(n, w) == Zeros(w - Len(n)) \o n

\* n & (256^w - 1)
low_bytes(n, w) ==
  IF Len(n) <= w THEN n ELSE from_bytes(SubSeq(n, Len(n) - w + 1, Len(n)))

\* n + 1
plus_one(n) ==
  LET low == {i \in 1..Len(n) : n[i] # 255}
  IN  IF low = {} THEN <<1>> \o Zeros(Len(n))
      ELSE LET k == CHOOSE i \in low : \A j \in low : j <= i
           IN  [i \in 1..Len(n) |-> IF i < k THEN n[i]
                                    ELSE IF i = k THEN n[i] + 1 ELSE 0]

\* a < b and a <= b
int_lt(a, b) ==
  \/ Len(a) < Len(b)
  \/ /\ Len(a) = Len(b)
     /\ \E k \in 1..Len(a) :
          /\ a[k] < b[k]
          /\ \A j \in 1..(k - 1) : a[j] = b[j]

int_le(a, b) == a = b \/ int_lt(a, b)

(***************************************************************************)
(* src/dev/solve_exercise03.py: the header codec.                          *)
(***************************************************************************)
\* (n & 0xFFFFFFFF).to_bytes(4, "big")
uint32_be(n) == to_bytes(low_bytes(n, 4), 4)

\* (n & 0xFFFFFFFFFFFFFFFF).to_bytes(8, "big")
uint64_be_mask32(n) == to_bytes(low_bytes(n, 4), 8)

uint64_be(n) == to_bytes(low_bytes(n, 8), 8)

\* (n & 0xFFFFFFFF).to_bytes(4, "big") of a signed 32-bit version: the two's
\* complement bytes (\div rounds down, % is non-negative).
int32_be(n) ==
  <<(n \div 16777216) % 256, (n \div 65536) % 256, (n \div 256) % 256, n % 256>>

build_header_hex(version, prevhash_be, merkleroot_be, timestamp, nonce) ==
  LET ver_b == int32_be(version)
      prev_b == fromhex(prevhash_be)
      mrkl_b == fromhex(merkleroot_be)
      time_b == uint32_be(timestamp)
      nonce_b == uint64_be(nonce)
  IN  hex(ver_b \o prev_b \o mrkl_b \o time_b \o nonce_b)

(***************************************************************************)
(* The compact-target decoders.  The result is [ok, err, target].          *)
(***************************************************************************)
DecodeFailure(err) == [ok |-> FALSE, err |-> err, target |-> <<>>]

\* M * (1 << (8 * (E - 3))) for 0 < M < 2^24, E >= 3
shift_mantissa(M, E) ==
  from_bytes(<<M \div 65536, (M \div 256) % 256, M % 256>>) \o Zeros(E - 3)

\* target <= 0 or target >= (1 << 256)
out_of_264_bit_range(target) == target = <<>> \/ Len(target) > 33

out_of_256_bit_range(target) == target = <<>> \/ Len(target) > 32

\* src/dev/solve_exercise03.py
decode_compact_target_be(nbits_be_hex) ==
  LET b == fromhex(nbits_be_hex)
      E == b[1]
      M == b[2] * 65536 + b[3] * 256 + b[4]
  IN  IF Len(b) # 4 THEN DecodeFailure("Length")
      ELSE IF M = 0 \/ E < 3 \/ E > 34 THEN DecodeFailure("InvalidEncoding")
      ELSE LET target == shift_mantissa(M, E)
           IN  IF out_of_256_bit_range(target) THEN DecodeFailure("Range")
               ELSE [ok |-> TRUE, err |-> "", target |-> target]

\* src/graders/grader_exercise03.py
decode_compact_target_from_le(nbits) ==
  LET nbits_le == fromhex(nbits)
      nbits_be == nbits_le
      E == nbits_be[1]
      M == nbits_be[2] * 65536 + nbits_be[3] * 256 + nbits_be[4]
  IN  IF Len(nbits_le) # 4 THEN DecodeFailure("Length")
      ELSE IF M = 0 THEN DecodeFailure("InvalidEncoding")
      ELSE IF E < 3 \/ E > 34 THEN DecodeFailure("InvalidEncoding")
      ELSE LET target == shift_mantissa(M, E)
           IN  IF out_of_256_bit_range(target) THEN DecodeFailure("Range")
               ELSE [ok |-> TRUE, err |-> "", target |-> target]

(***************************************************************************)
(* src/dev/solve_exercise03.py: mine().                                    *)
(***************************************************************************)
MaxBudget == 3

MaxDigests == 6

MinerLeaves == 2

\* h_int <= target
meets_target_swapped(h_int, target) == int_le(target, h_int)

meets_target(h_int, target) == int_le(h_int, target)

\* (nonce + 1) & 0xFFFFFFFF
next_nonce(nonce) == low_bytes(plus_one(nonce), 4)

\* The header mine() encodes from its arguments and the current time and nonce.
miner_header_hex_start_time(cur_time, nonce) ==
  build_header_hex(mine_args.version, mine_args.prevhash_be, miner.merkleroot_be,
                   mine_args.timestamp, nonce)

miner_header_hex(cur_time, nonce) ==
  build_header_hex(mine_args.version, mine_args.prevhash_be, miner.merkleroot_be,
                   cur_time, nonce)

\* mine() up to the loop: the Merkle root, the target, the counters.
MineStart ==
  /\ miner.pc = "start"
  /\ LET root == merkle_root_be_hex_solver03(txs_be)
         decoded == decode_compact_target_be(mine_args.nbits_be_hex)
     IN  IF ~root.ok
           THEN miner' = [miner EXCEPT !.pc = "failed", !.err = "EmptyTxList"]
         ELSE IF ~decoded.ok
           THEN miner' = [miner EXCEPT !.pc = "failed", !.err = decoded.err,
                                       !.merkleroot_be = root.root]
         ELSE miner' = [miner EXCEPT !.pc = "Searching",
                                     !.merkleroot_be = root.root,
                                     !.target = decoded.target,
                                     !.nonce = mine_args.start_nonce,
                                     !.tries = 0,
                                     !.cur_time = mine_args.timestamp]
  /\ UNCHANGED <<txs_be, mine_args, codec, ex2_vars, ex1_vars, modeb>>

\* One iteration of `while True`.  digests counts the sha256 calls made and
\* tried lists the headers hashed; the search is followed for MaxDigests
\* iterations.
MineAttempt ==
  /\ miner.pc = "Searching"
  /\ miner.digests < MaxDigests
  /\ LET header_hex == miner_header_hex(miner.cur_time, miner.nonce)
         hdr == fromhex(header_hex)
         h_le == sha256(hdr)
         h_int == from_bytes(h_le)
         hashed == [miner EXCEPT !.digests = @ + 1, !.tried = Append(@, header_hex)]
         nonce == next_nonce(miner.nonce)
         tries == miner.tries + 1
     IN  IF meets_target(h_int, miner.target)
           THEN miner' = [hashed EXCEPT !.pc = "Found", !.out = header_hex]
         ELSE IF tries >= mine_args.max_tries
           THEN IF mine_args.allow_time_increment
                  THEN miner' = [hashed EXCEPT !.nonce = nonce, !.tries = 0,
                                               !.cur_time = plus_one(@)]
                  ELSE miner' = [hashed EXCEPT !.nonce = nonce, !.tries = tries,
                                               !.pc = "Exhausted",
                                               !.err = "SearchExhausted"]
         ELSE miner' = [hashed EXCEPT !.nonce = nonce, !.tries = tries]
  /\ UNCHANGED <<txs_be, mine_args, codec, ex2_vars, ex1_vars, modeb>>

\* The arguments of mine(): values that fit their header fields.
ZeroHash == hex(Zeros(32))

NbitsInputs ==
  { <<2, 0, 7, 15, 15, 15, 15, 15>>,   \* 207fffff, the value main() passes
    <<2, 0, 15, 15, 15, 15, 15, 15>>,  \* 20ffffff, the largest target
    <<0, 3, 0, 0, 0, 0, 0, 1>>,        \* 03000001, target 1
    <<2, 1, 0, 1, 0, 0, 0, 0>>,        \* 21010000, 2^256
    <<0, 2, 0, 0, 0, 0, 0, 1>> }       \* 02000001, exponent below 3

TimestampInputs == { <<73, 95, 143, 10>>, <<255, 255, 255, 255>> }

NonceInputs == { <<>>, <<255, 255, 255, 255>>, <<1, 0, 0, 0, 5>> }

MineArgs ==
  [version : {4}, prevhash_be : {ZeroHash}, nbits_be_hex : NbitsInputs,
   timestamp : TimestampInputs, start_nonce : NonceInputs,
   max_tries : 0..MaxBudget, allow_time_increment : BOOLEAN]

MinerSpecInit ==
  /\ txs_be \in SeqsUpTo(TxUniverse, MinerLeaves)
  /\ mine_args \in MineArgs
  /\ miner = MinerInit
  /\ Ex2Idle
  /\ codec = NoCodec
  /\ select = NoSelect

MinerNext ==
  \/ MineStart
  \/ MineAttempt

SpecMiner == MinerSpecInit /\ [][MinerNext]_vars

(***************************************************************************)
(* Properties of the miner.                                                *)
(***************************************************************************)
FirstHeaderHex ==
  miner_header_hex(mine_args.timestamp, mine_args.start_nonce)

FirstDigestMeetsTarget ==
  int_le(from_bytes(sha256(fromhex(FirstHeaderHex))), miner.target)

\* The bytes of the time and nonce fields of a header hex string.
TimeField(header_hex) == SubSeq(fromhex(header_hex), 69, 72)

NonceField(header_hex) == SubSeq(fromhex(header_hex), 73, 80)

\* C6: when the first header's digest is <= target the miner goes from
\* Searching to Found on its first attempt: the emitted header carries the
\* starting nonce and timestamp, and nonce, timestamp and attempt counter have
\* not been advanced.
C6_FoundOnFirstAttempt ==
  (miner.pc \in {"Searching", "Found", "Exhausted"} /\ FirstDigestMeetsTarget) =>
    /\ miner.pc # "Exhausted"
    /\ (miner.pc = "Searching") => (miner.digests = 0)
    /\ (miner.pc = "Found") =>
         /\ miner.digests = 1
         /\ miner.out = FirstHeaderHex
         /\ from_bytes(NonceField(miner.out)) = mine_args.start_nonce
         /\ from_bytes(TimeField(miner.out)) = mine_args.timestamp
         /\ miner.nonce = mine_args.start_nonce
         /\ miner.cur_time = mine_args.timestamp
         /\ miner.tries = 0

C6_Witness ==
  /\ miner.pc = "Found" /\ FirstDigestMeetsTarget
  /\ mine_args.start_nonce = <<1, 0, 0, 0, 5>>
  /\ mine_args.timestamp = <<255, 255, 255, 255>>
  /\ mine_args.max_tries = 0

\* C7: with timestamp advancement disallowed and no header meeting the
\* target, the miner ends Exhausted after computing exactly max_tries digests,
\* for every budget.
C7_ExhaustedAfterBudget ==
  (miner.pc = "Exhausted") => (miner.digests = mine_args.max_tries)

\* C7 for budgets of one attempt or more, where the code does what is claimed.
C7_ExhaustedAfterBudget_Positive ==
  (miner.pc = "Exhausted" /\ mine_args.max_tries >= 1) =>
    /\ miner.digests = mine_args.max_tries
    /\ ~mine_args.allow_time_increment

\* The upper and the lower 4 bytes of the nonce field of the k-th header hashed.
NonceHigh(k) == SubSeq(NonceField(miner.tried[k]), 1, 4)

NonceLow(k) == SubSeq(NonceField(miner.tried[k]), 5, 8)

\* C13: for every starting nonce that fits the 8-byte field, every header the
\* miner encodes carries the upper 4 nonce bytes of the first header, and the
\* low 4 bytes advance by one per failed attempt, modulo 2^32.
C13_UpperNonceBitsKept ==
  (Len(mine_args.start_nonce) <= 8) =>
    \A k \in 1..Len(miner.tried) :
      /\ NonceHigh(k) = NonceHigh(1)
      /\ (k > 1) =>
           from_bytes(NonceLow(k)) = low_bytes(plus_one(from_bytes(NonceLow(k - 1))), 4)

\* C13 for starting nonces below 2^32, where the code does what is claimed.
C13_UpperNonceBitsKept_Below32Bits ==
  (Len(mine_args.start_nonce) <= 4) =>
    \A k \in 1..Len(miner.tried) :
      /\ NonceHigh(k) = NonceHigh(1)
      /\ (k > 1) =>
           from_bytes(NonceLow(k)) = low_bytes(plus_one(from_bytes(NonceLow(k - 1))), 4)

\* With timestamp advancement permitted, a failed attempt that brings the
\* attempt counter to the budget adds one to the timestamp, resets the counter
\* and leaves the nonce one past the nonce just tried, modulo 2^32.
BoundaryStep ==
  [][(/\ miner.pc = "Searching" /\ miner'.pc = "Searching"
      /\ mine_args.allow_time_increment
      /\ miner.tries + 1 >= mine_args.max_tries) =>
       /\ miner'.cur_time = plus_one(miner.cur_time)
       /\ miner'.tries = 0
       /\ miner'.nonce = low_bytes(plus_one(miner.nonce), 4)]_vars

\* Within the attempts followed here (MaxDigests), no header is hashed twice.
\* The time and nonce fields are 32 bits wide once advanced, so this says
\* nothing about runs of 2^32 attempts or more.
NoHeaderHashedTwiceWithinBound ==
  \A j, k \in 1..Len(miner.tried) : j < k => miner.tried[j] # miner.tried[k]

BoundaryCrossed ==
  /\ mine_args.allow_time_increment /\ mine_args.max_tries = 2
  /\ Len(miner.tried) >= 5
  /\ TimeField(miner.tried[5]) # TimeField(miner.tried[1])

\* The digest of a hashed header, read as a big-endian integer.
HeaderDigest(header_hex) == from_bytes(sha256(fromhex(header_hex)))

\* C16: the output file is written only on the step from Searching to Found,
\* never while Searching or on Exhausted; the header written is the one
\* encoded from the current timestamp and nonce, its single-SHA-256 digest is
\* <= target, its root field is the root rebuilt from the txid list, and every
\* header hashed before it in the run had a digest > target.
C16_OutputOnlyWhenFound ==
  /\ (miner.pc # "Found") => (miner.out = <<>>)
  /\ (miner.pc = "Found") =>
       LET n == Len(miner.tried)
           target == decode_compact_target_be(mine_args.nbits_be_hex).target
       IN  /\ n >= 1 /\ miner.out = miner.tried[n]
           /\ Len(miner.out) = 160
           /\ TimeField(miner.out) = uint32_be(miner.cur_time)
           /\ NonceField(miner.out) = uint64_be(miner.nonce)
           /\ SubSeq(fromhex(miner.out), 1, 4) = int32_be(mine_args.version)
           /\ hex(SubSeq(fromhex(miner.out), 5, 36)) = mine_args.prevhash_be
           /\ SubSeq(fromhex(miner.out), 37, 68) = RefRoot(Leaves)
           /\ int_le(HeaderDigest(miner.out), target)
           /\ \A k \in 1..(n - 1) : int_lt(target, HeaderDigest(miner.tried[k]))

C16_Witness ==
  /\ miner.pc = "Found"
  /\ Len(miner.tried) >= 3
  /\ miner.out = miner.tried[Len(miner.tried)]
  /\ miner.cur_time # mine_args.timestamp
  /\ mine_args.max_tries = 2
  /\ Len(txs_be) = 2

(***************************************************************************)
(* The header codec and the compact-target decoders run on their own: a    *)
(* header is encoded by build_header_hex, written, read back by the        *)
(* grader's read_header_bytes and sliced by its main(); a compact target   *)
(* is decoded by the solver's decoder and by the grader's.                 *)
(***************************************************************************)
HeaderHexChars == 160

HeaderBytes == 80

\* The solver writes the header line.
EncodeHeader ==
  /\ codec.task = "header" /\ codec.pc = "encode"
  /\ LET f == codec.fields
     IN  codec' = [codec EXCEPT !.pc = "written",
                                !.header_hex = build_header_hex(f.version, f.prevhash_be,
                                                 f.merkleroot_be, f.timestamp, f.nonce)]
  /\ UNCHANGED <<txs_be, mine_args, miner, ex2_vars, ex1_vars, modeb>>

\* read_header_bytes() of the grader.
ReadHeader ==
  /\ codec.task = "header" /\ codec.pc = "written"
  /\ LET line == codec.header_hex
         hdr == fromhex(line)
     IN  IF line = <<>>
           THEN codec' = [codec EXCEPT !.pc = "failed", !.err = "Empty"]
         ELSE IF Len(line) # HeaderHexChars
           THEN codec' = [codec EXCEPT !.pc = "failed", !.err = "Length"]
         ELSE IF \E i \in 1..Len(line) : ~IsHexDigit(line[i])
           THEN codec' = [codec EXCEPT !.pc = "failed", !.err = "InvalidHex"]
         ELSE IF Len(hdr) # HeaderBytes
           THEN codec' = [codec EXCEPT !.pc = "failed", !.err = "Length"]
         ELSE codec' = [codec EXCEPT !.pc = "read", !.hdr = hdr]
  /\ UNCHANGED <<txs_be, mine_args, miner, ex2_vars, ex1_vars, modeb>>

\* hdr[0:4], hdr[4:36], hdr[36:68], hdr[68:72], hdr[72:80]
SliceHeader ==
  /\ codec.task = "header" /\ codec.pc = "read"
  /\ LET hdr == codec.hdr
     IN  codec' = [codec EXCEPT !.pc = "sliced",
                                !.slices = [ver_le |-> SubSeq(hdr, 1, 4),
                                            prev_le |-> SubSeq(hdr, 5, 36),
                                            mrkl_le |-> SubSeq(hdr, 37, 68),
                                            time_le |-> SubSeq(hdr, 69, 72),
                                            nonce_le |-> SubSeq(hdr, 73, 80)]]
  /\ UNCHANGED <<txs_be, mine_args, miner, ex2_vars, ex1_vars, modeb>>

DecodeSolver ==
  /\ codec.task = "nbits" /\ codec.solver_target = NoDecode
  /\ codec' = [codec EXCEPT !.solver_target = decode_compact_target_be(codec.nbits)]
  /\ UNCHANGED <<txs_be, mine_args, miner, ex2_vars, ex1_vars, modeb>>

DecodeGrader ==
  /\ codec.task = "nbits" /\ codec.grader_target = NoDecode
  /\ codec' = [codec EXCEPT !.grader_target = decode_compact_target_from_le(codec.nbits)]
  /\ UNCHANGED <<txs_be, mine_args, miner, ex2_vars, ex1_vars, modeb>>

\* Inputs of the codec: field values at and inside the edges of their widths,
\* and a previous hash of 31 bytes.
VersionInputs == {4, 1, -1, 2147483647, -2147483647 - 1}

HeaderFieldInputs ==
  [version : VersionInputs,
   prevhash_be : {ZeroHash, TxId(1), hex(Zeros(31))},
   merkleroot_be : {TxId(1), TxId(2)},
   timestamp : TimestampInputs \cup {<<>>},
   nonce : NonceInputs \cup {<<255, 255, 255, 255, 255, 255, 255, 255>>}]

ExponentInputs == {0, 2, 3, 4, 31, 32, 33, 34, 35, 255}

MantissaInputs == {0, 1, 255, 256, 65535, 65536, 8388607, 16777215}

CompactInputs ==
  {hex(<<E, M \div 65536, (M \div 256) % 256, M % 256>>) :
     E \in ExponentInputs, M \in MantissaInputs}
    \cup {hex(<<32, 127, 255>>)}

CodecSpecInit ==
  /\ txs_be = <<>>
  /\ mine_args = NoMineArgs
  /\ miner = MinerInit
  /\ Ex2Idle
  /\ select = NoSelect
  /\ \/ \E f \in HeaderFieldInputs :
          codec = [NoCodec EXCEPT !.task = "header", !.pc = "encode", !.fields = f]
     \/ \E n \in CompactInputs :
          codec = [NoCodec EXCEPT !.task = "nbits", !.pc = "decode", !.nbits = n]

CodecNext ==
  \/ EncodeHeader
  \/ ReadHeader
  \/ SliceHeader
  \/ DecodeSolver
  \/ DecodeGrader

SpecCodec == CodecSpecInit /\ [][CodecNext]_vars

(***************************************************************************)
(* Properties of the codec.                                                *)
(***************************************************************************)
\* The fields are valid: the hashes are 32 bytes, timestamp and nonce fit 4
\* and 8 bytes (the version inputs all fit 4 signed bytes).
ValidFields(f) ==
  /\ validate_hex(f.prevhash_be, 32)
  /\ validate_hex(f.merkleroot_be, 32)
  /\ Len(f.timestamp) <= 4
  /\ Len(f.nonce) <= 8

\* The signed big-endian value of 4 bytes.
SignedValue(b) ==
  (IF b[1] >= 128 THEN b[1] - 256 ELSE b[1]) * 16777216
    + b[2] * 65536 + b[3] * 256 + b[4]

C9_E == fromhex(codec.nbits)[1]

C9_M ==
  LET b == fromhex(codec.nbits) IN b[2] * 65536 + b[3] * 256 + b[4]

\* M * 256^(E-3) < 2^256, for 0 < M < 2^24 and 3 <= E <= 34
C9_ProductFits ==
  \/ C9_E <= 32
  \/ C9_E = 33 /\ C9_M < 65536
  \/ C9_E = 34 /\ C9_M < 256

\* The digits t are those of M * 256^(E-3).
C9_IsProduct(t) ==
  LET n == Len(t) - (C9_E - 3)
      lead == to_bytes(SubSeq(t, 1, n), 3)
  IN  /\ n \in 1..3
      /\ t[1] # 0
      /\ lead[1] * 65536 + lead[2] * 256 + lead[3] = C9_M
      /\ \A i \in (n + 1)..Len(t) : t[i] = 0

C9_WitnessRange ==
  /\ codec.task = "nbits"
  /\ codec.nbits = <<2, 2, 0, 0, 0, 1, 0, 0>>
  /\ codec.solver_target.err = "Range" /\ codec.grader_target.err = "Range"

(***************************************************************************)
(* src/graders/grader_exercise01.py: load_submission and check_all.        *)
(* Txids are strings here; the mempool is the dict load_mempool returns,   *)
(* txid -> [weight, parents].                                              *)
(***************************************************************************)
MaxLines == 3

WEIGHT_LIMIT == 4000000

\* ln.strip().lower() on the lines of the model: "A" is "a" in upper case and
\* "" a blank line.
strip_lower(ln) == IF ln = "A" THEN "a" ELSE ln

\* sum(mempool[tx]["weight"] for tx in submission); the submission list is
\* named txids here, as in load_submission.
RECURSIVE sum_weights(_, _)
sum_weights(mempool, txids) ==
  IF txids = <<>> THEN 0
  ELSE mempool[Head(txids)].weight + sum_weights(mempool, Tail(txids))

Verdict(kind, tx, parent) == [NoVerdict EXCEPT !.kind = kind, !.tx = tx, !.parent = parent]

\* total_weight > WEIGHT_LIMIT
exceeds_limit_ge(total_weight) == total_weight >= WEIGHT_LIMIT

exceeds_limit(total_weight) == total_weight > WEIGHT_LIMIT

\* The first (i, p) at which the parent loop of check_all fails, as
\* <<i, k>> with p the k-th parent of txids[i]; <<0, 0>> when none does.
first_parent_failure(mempool, txids) ==
  LET bad(i, k) ==
        LET p == mempool[txids[i]].parents[k]
        IN  index(txids, p) = -1 \/ index(txids, p) >= i - 1
      failures == UNION {{<<i, k>> : k \in {n \in 1..Len(mempool[txids[i]].parents) :
                                               bad(i, n)}} : i \in 1..Len(txids)}
  IN  IF failures = {} THEN <<0, 0>>
      ELSE CHOOSE ik \in failures :
             \A other \in failures :
               ik[1] < other[1] \/ (ik[1] = other[1] /\ ik[2] <= other[2])

\* check_all(mempool, submission, required_txid): the verdict it exits with.
check_all(mempool, txids, required_txid) ==
  LET dups == {i \in 1..Len(txids) :
                 \E j \in 1..(i - 1) : txids[j] = txids[i]}
      not_in_mempool(tx) == tx \notin DOMAIN mempool
      missing == SelectSeq(txids, not_in_mempool)
      total_weight == sum_weights(mempool, txids)
      pf == first_parent_failure(mempool, txids)
  IN  IF dups # {}
        THEN Verdict("Duplicate", txids[CHOOSE i \in dups : \A j \in dups : i <= j], "")
      ELSE IF missing # <<>>
        THEN [Verdict("Unknown", missing[1], "") EXCEPT !.count = Len(missing)]
      ELSE IF exceeds_limit(total_weight)
        THEN [Verdict("Weight", "", "") EXCEPT !.total_weight = total_weight]
      ELSE IF pf # <<0, 0>>
        THEN LET tx == txids[pf[1]]
                 p == mempool[tx].parents[pf[2]]
             IN  IF index(txids, p) = -1 THEN Verdict("ParentMissing", tx, p)
                 ELSE Verdict("ParentOrder", tx, p)
      ELSE IF required_txid # "" /\ index(txids, required_txid) = -1
        THEN Verdict("Required", required_txid, "")
      ELSE [NoVerdict EXCEPT !.kind = "OK", !.total_weight = total_weight,
                             !.count = Len(txids)]

\* load_submission(): the non-blank lines, stripped and lower-cased.
LoadSubmission ==
  /\ select.pc = "load"
  /\ LET lines == [i \in 1..Len(select.lines) |-> strip_lower(select.lines[i])]
         non_blank(tx) == tx # ""
         txids == SelectSeq(lines, non_blank)
     IN  IF txids = <<>>
           THEN select' = [select EXCEPT !.pc = "exit", !.result = Verdict("Empty", "", "")]
           ELSE select' = [select EXCEPT !.pc = "check", !.submission = txids]
  /\ UNCHANGED <<txs_be, ex2_vars, ex3_vars, modeb>>

CheckAll ==
  /\ select.pc = "check"
  /\ select' = [select EXCEPT !.pc = "exit",
                              !.result = check_all(select.mempool, select.submission,
                                                   select.required_txid)]
  /\ UNCHANGED <<txs_be, ex2_vars, ex3_vars, modeb>>

\* Inputs: mempools over the txids a, b, c and submission files over them, an
\* unknown txid u, a blank line and A.
Mempools ==
  {[tx \in {"a", "b", "c"} |->
      [weight |-> CASE tx = "a" -> wa [] tx = "b" -> wb [] OTHER -> 1,
       parents |-> CASE tx = "a" -> <<>> [] tx = "b" -> pb [] OTHER -> pc]] :
     wa \in {2000000, 4000000}, wb \in {1, 2000000},
     pb \in {<<>>, <<"a">>}, pc \in {<<"a", "b">>, <<"z">>, <<"c">>}}

SelectSpecInit ==
  /\ txs_be = <<>>
  /\ Ex2Idle
  /\ mine_args = NoMineArgs
  /\ miner = MinerInit
  /\ codec = NoCodec
  /\ \E m \in Mempools, l \in SeqsUpTo({"a", "b", "c", "u", "", "A"}, MaxLines),
        r \in {"", "a", "c"} :
       select = [NoSelect EXCEPT !.pc = "load", !.mempool = m, !.lines = l,
                                 !.required_txid = r]

SelectNext ==
  \/ LoadSubmission
  \/ CheckAll

SpecSelect == SelectSpecInit /\ [][SelectNext]_vars

(***************************************************************************)
(* Properties of the exercise 1 checker.                                   *)
(***************************************************************************)
\* The listed txids: the non-blank lines in lower case.
C10_Listed ==
  LET nonblank == {i \in 1..Len(select.lines) : select.lines[i] # ""}
      nth(k) == CHOOSE i \in nonblank : Cardinality({j \in nonblank : j <= i}) = k
  IN  [k \in 1..Cardinality(nonblank) |->
         IF select.lines[nth(k)] = "A" THEN "a" ELSE select.lines[nth(k)]]

C10_NoDuplicate ==
  \A i, j \in 1..Len(C10_Listed) : i # j => C10_Listed[i] # C10_Listed[j]

C10_AllKnown ==
  \A i \in 1..Len(C10_Listed) : C10_Listed[i] \in DOMAIN select.mempool

RECURSIVE C10_WeightUpTo(_)
C10_WeightUpTo(n) ==
  IF n = 0 THEN 0 ELSE C10_WeightUpTo(n - 1) + select.mempool[C10_Listed[n]].weight

C10_WeightOK == C10_WeightUpTo(Len(C10_Listed)) <= 4000000

C10_ParentsEarlier ==
  \A i \in 1..Len(C10_Listed) :
    LET parents == select.mempool[C10_Listed[i]].parents
    IN  \A k \in 1..Len(parents) : \E j \in 1..(i - 1) : C10_Listed[j] = parents[k]

C10_RequiredListed ==
  select.required_txid = "" \/ \E i \in 1..Len(C10_Listed) : C10_Listed[i] = select.required_txid

\* The first violated rule, load_submission's emptiness check first.
C10_Expected ==
  IF C10_Listed = <<>> THEN {"Empty"}
  ELSE IF ~C10_NoDuplicate THEN {"Duplicate"}
  ELSE IF ~C10_AllKnown THEN {"Unknown"}
  ELSE IF ~C10_WeightOK THEN {"Weight"}
  ELSE IF ~C10_ParentsEarlier THEN {"ParentMissing", "ParentOrder"}
  ELSE IF ~C10_RequiredListed THEN {"Required"}
  ELSE {"OK"}

\* C10: the checker accepts exactly the non-empty, duplicate-free lists of
\* mempool txids within the weight limit whose parents are all listed earlier
\* and that hold the required txid when one is configured; otherwise it
\* reports the first violated rule in the order (empty,) duplicates, unknown
\* txid, weight, parent ordering, required txid.
C10_CheckerVerdict ==
  (select.pc = "exit") =>
    /\ select.result.kind \in C10_Expected
    /\ (select.result.kind = "OK") =>
         /\ select.result.total_weight = C10_WeightUpTo(Len(C10_Listed))
         /\ select.result.count = Len(C10_Listed)

C10_Witness ==
  /\ select.pc = "exit" /\ select.result.kind = "OK"
  /\ select.submission = <<"a", "b">>
  /\ select.result.total_weight = 4000000
  /\ select.mempool["b"].parents = <<"a">>
  /\ select.required_txid = "a"

(***************************************************************************)
(* The committed-digest verifier (Mode B) of spec section 4.3.  Its        *)
(* reference file holds the digest of the correct root, then the digest of *)
(* each correct sibling, leaf to root; the claimed root and siblings are   *)
(* the lines of the submitted file.  Every position is compared before the *)
(* overall outcome is given.                                               *)
(***************************************************************************)
\* The digest of one line of a proof file.
digest(line) == hex(sha256(fromhex(line)))

\* The committed reference of a correct proof file.
reference_digests(lines) == [i \in 1..Len(lines) |-> digest(lines[i])]

\* The positions compared: those present in both lists.
positions(proof_be, reference) ==
  IF Len(proof_be) < Len(reference) - 1 THEN Len(proof_be) ELSE Len(reference) - 1

\* The loop over the positions goes on.
more_positions_until_mismatch(step, n, reported) == step < n /\ reported = <<>>

more_positions(step, n, reported) == step < n

\* Read the reference and the submission; compare the root digest and the
\* lengths.  A malformed or empty submission is a format error.
ModeBStart ==
  /\ solver.pc = "done"
  /\ submission.pc = "written"
  /\ modeb.pc = "start"
  /\ LET lines == submission.lines
         reference == reference_digests(solver.out)
     IN  IF lines = <<>> \/ \E i \in 1..Len(lines) : ~validate_hex(lines[i], TxidBytes)
           THEN modeb' = [modeb EXCEPT !.pc = "exit", !.result = "InputFormat"]
           ELSE modeb' = [modeb EXCEPT !.pc = "loop",
                                       !.reference = reference,
                                       !.root_ok = digest(lines[1]) = reference[1],
                                       !.length_ok = Len(lines) = Len(reference)]
  /\ UNCHANGED <<txs_be, required_be, solver, submission, grader, ex3_vars, ex1_vars>>

\* Compare one position; a mismatch is reported and the loop goes on.
ModeBStep ==
  /\ modeb.pc = "loop"
  /\ LET proof_be == Tail(submission.lines)
         step == modeb.step
     IN  /\ more_positions(step, positions(proof_be, modeb.reference), modeb.reported)
         /\ IF digest(proof_be[step + 1]) # modeb.reference[step + 2]
              THEN modeb' = [modeb EXCEPT !.step = step + 1,
                                          !.reported = Append(@, step)]
              ELSE modeb' = [modeb EXCEPT !.step = step + 1]
  /\ UNCHANGED <<txs_be, required_be, solver, submission, grader, ex3_vars, ex1_vars>>

\* The overall outcome, after the loop.
ModeBFinish ==
  /\ modeb.pc = "loop"
  /\ ~more_positions(modeb.step, positions(Tail(submission.lines), modeb.reference),
                     modeb.reported)
  /\ modeb' = [modeb EXCEPT !.pc = "exit",
                            !.result = IF modeb.root_ok /\ modeb.length_ok
                                            /\ modeb.reported = <<>>
                                         THEN "OK" ELSE "Reject"]
  /\ UNCHANGED <<txs_be, required_be, solver, submission, grader, ex3_vars, ex1_vars>>

ModeBSpecInit ==
  /\ txs_be \in SeqsUpTo(TxUniverse, MaxLeaves)
  /\ required_be \in TxUniverse
  /\ solver = SolverInit
  /\ submission = [pc |-> "none", lines |-> <<>>]
  /\ grader = GraderInit
  /\ modeb = [NoModeB EXCEPT !.pc = "start"]
  /\ mine_args = NoMineArgs
  /\ miner = MinerInit
  /\ codec = NoCodec
  /\ select = NoSelect

ModeBNext ==
  \/ SolverStart
  \/ SolverAscend
  \/ SolverWrite
  \/ Submit
  \/ ModeBStart
  \/ ModeBStep
  \/ ModeBFinish

SpecModeB == ModeBSpecInit /\ [][ModeBNext]_vars

(***************************************************************************)
(* Properties of Mode B.                                                   *)
(***************************************************************************)
\* The positions (0-based) present in both lists whose digests differ.
C11_Wrong ==
  LET reference == reference_digests(solver.out)
      n == IF Len(ClaimedProof) < Len(solver.proof_be)
             THEN Len(ClaimedProof) ELSE Len(solver.proof_be)
  IN  {i \in 0..(n - 1) : digest(ClaimedProof[i + 1]) # reference[i + 2]}

\* C11: Mode B accepts exactly when the digest of the claimed root is the
\* first reference digest, the claimed proof has as many entries as there are
\* remaining reference digests and the digest of each entry is the reference
\* digest of its position; before it gives the overall outcome it has
\* compared every position and reported each mismatching one, in order, not
\* only the first.
C11_ModeBReportsAll ==
  /\ (modeb.pc = "exit" /\ Parsed) =>
       LET reference == reference_digests(solver.out)
       IN  /\ (modeb.result = "OK") <=>
                 /\ digest(submission.lines[1]) = reference[1]
                 /\ Len(ClaimedProof) = Len(reference) - 1
                 /\ \A i \in 1..Len(ClaimedProof) :
                      digest(ClaimedProof[i]) = reference[i + 1]
           /\ modeb.result \in {"OK", "Reject"}
           /\ {modeb.reported[k] : k \in 1..Len(modeb.reported)} = C11_Wrong
           /\ Len(modeb.reported) = Cardinality(C11_Wrong)
           /\ \A j, k \in 1..Len(modeb.reported) :
                j < k => modeb.reported[j] < modeb.reported[k]
  /\ (modeb.pc # "exit") => (modeb.result = "none")

C11_Witness ==
  /\ modeb.pc = "exit" /\ Parsed
  /\ modeb.result = "Reject"
  /\ modeb.root_ok /\ modeb.length_ok
  /\ modeb.reported = <<0, 2>>

C11_WitnessAccept ==
  /\ modeb.pc = "exit" /\ modeb.result = "OK"
  /\ Len(ClaimedProof) = 3

====
